---- MODULE Spec2Model ----
(***************************************************************************)
(* A model of pydownloader/downloader.py: the download() orchestrator, its *)
(* one-worker thread pool, copy_url (request, filename resolution, chunked *)
(* copy), the SIGINT handler that sets done_event, and the destination     *)
(* check that argparse runs through directory_path in main().              *)
(*                                                                         *)
(* A path is a pair <<directory, name>>.  File contents are sequences of   *)
(* chunks; a chunk is a pair <<task, index>> and <<0, 1>> is what a file   *)
(* held before the run.  The files that exist before the run are given by  *)
(* preexisting; disk holds every file the run has opened for writing.      *)
(***************************************************************************)
EXTENDS Integers, Sequences, FiniteSets, TLC

VARIABLES
    pcMain,            \* where the main thread is
    dest_dir,          \* the destination as passed (--dest / download's argument)
    done_event,        \* the module-level threading.Event
    success_at_cancel, \* the tasks that had succeeded when done_event was first set
    mainExc,           \* the exception that left main()/download(), or "None"
    preexisting,       \* the paths of the regular files that exist before the run
    disk,              \* path -> contents, for every file the run has opened
    submitted,         \* how many URLs the submit loop has handled
    queue,             \* the pool's work queue (task ids, FIFO)
    future_to_url,     \* the futures download() holds
    collected,         \* futures as_completed has already yielded
    pc,                \* per task: where copy_url is
    default_filename,  \* per task: last segment of the URL path
    filename,          \* per task: the resolved filename
    output_file_path,  \* per task: path.joinpath(filename)
    nread,             \* per task: chunks iter_content has yielded
    outcome,           \* per task: how the future ended
    sink,              \* per task: the progress sink's record of the task
    log,               \* progress.console.log lines
    requested,         \* tasks whose requests.get was sent
    headers            \* per task: the response headers, until resolution has read them

vars == <<pcMain, dest_dir, done_event, success_at_cancel, mainExc, preexisting, disk, submitted,
          queue, future_to_url, collected, pc, default_filename, filename,
          output_file_path, nread, outcome, sink, log, requested, headers>>

----------------------------------------------------------------------------
(* Bounds of the model *)

MaxUrls == 2
MaxChunks == 2

(* Program constants *)

max_workers == 1
ProbeEnd == 1000

Tasks == 1..MaxUrls

NoName == "<none>"
NoPath == <<"<none>", "<none>">>
OldContent == << <<0, 1>> >>

----------------------------------------------------------------------------
(* The file system *)

\* The directories that exist: the working directory, another one, /tmp, and
\* the parents of the first two
ExistingDirs == {"cwd", "dl", "/tmp", "cwd/..", "dl/.."}

\* f"{filename}.{i}"
Numbered(name, i) == name \o "." \o ToString(i)

\* Sets of names a directory may hold before the run
IndexFull == {"index.txt"} \cup {Numbered("index.txt", i) : i \in 1..(ProbeEnd - 1)}

FilesIn(dir, names) == {<<dir, n>> : n \in names}

isfile(p) == p \in preexisting \/ p \in DOMAIN disk

Contents(p) == IF p \in DOMAIN disk THEN disk[p] ELSE OldContent

\* os.path.isfile of a relative name: resolved against the working directory
isfile_relative(name) == isfile(<<"cwd", name>>)

\* pathlib's joinpath, as the directory and the name the path leads to: an
\* absolute right-hand side replaces the left, and ".." is kept, so the path
\* leads into the parent
joinpath(path, name) ==
    CASE name = "/tmp/evil" -> <<"/tmp", "evil">>
      [] name = "../evil" -> <<path \o "/..", "evil">>
      [] OTHER -> <<path, name>>

\* How the run is set up: the destination given, and the files that exist
Installations ==
    { [dest |-> "cwd", files |-> {}],
      [dest |-> "cwd", files |-> FilesIn("cwd", {"index.txt", "data.csv"})],
      [dest |-> "cwd", files |-> FilesIn("cwd", IndexFull)],
      [dest |-> "dl", files |-> FilesIn("dl", {"index.txt", "report.pdf"})],
      [dest |-> "dl", files |-> FilesIn("cwd", {"index.txt"})],
      [dest |-> "missing", files |-> {}],
      [dest |-> "afile", files |-> {}] }

----------------------------------------------------------------------------
(* Pure helpers of the source *)

\* randomword(length): some word of that many lowercase letters
randomword(length) ==
    IF length = 12 THEN {"qwertyuiopas", "zxcvbnmasdfg"}
    ELSE {"qwertyuiopasdfgh", "zxcvbnmasdfghjkl"}

\* The loop of find_next_filename over range(lo, hi + 1): the first i whose
\* numbered name is no file, or 0 when the loop runs out.  The range is
\* searched by halves, left half first, which visits the same i in the same
\* order as the loop.
RECURSIVE probe(_, _, _)
probe(name, lo, hi) ==
    IF lo > hi THEN 0
    ELSE IF lo = hi
      THEN (IF ~isfile_relative(Numbered(name, lo)) THEN lo ELSE 0)
    ELSE LET mid == (lo + hi) \div 2
             left == probe(name, lo, mid)
         IN IF left # 0 THEN left ELSE probe(name, mid + 1, hi)

\* a find_next_filename that does not look at the directory
find_next_filename_any(name) == {name, Numbered(name, 1)}

\* find_next_filename: the set of values it may return
find_next_filename(name) ==
    IF ~isfile_relative(name) THEN {name}
    ELSE LET i == probe(name, 1, ProbeEnd - 1)
         IN IF i # 0 THEN {Numbered(name, i)}
            ELSE {name \o "." \o w : w \in randomword(16)}

\* a directory_path that only tests existence
directory_path_exists_only(pathname) ==
    IF pathname = "missing" THEN "DestinationDoesNotExist" ELSE "ok"

\* directory_path: "ok" or the exception it raises
directory_path(pathname) ==
    IF pathname = "missing" THEN "DestinationDoesNotExist"
    ELSE IF pathname = "afile" THEN "DestinationIsNotDirectory"
    ELSE "ok"

\* Content-Disposition header values: absent, or one of these
NoHeader == "<no header>"
Dispositions ==
    { NoHeader,
      "inline",
      "attachment; filename=\"\"",
      "attachment; filename=\"report.pdf\"",
      "attachment; filename=\"/tmp/evil\"",
      "attachment; filename=\"../evil\"" }

\* dict(header.value_parser(v).params): the filename parameter, if any
HasFilenameParam(v) == v \notin {NoHeader, "inline"}
FilenameParam(v) ==
    CASE v = "attachment; filename=\"\"" -> ""
      [] v = "attachment; filename=\"report.pdf\"" -> "report.pdf"
      [] v = "attachment; filename=\"/tmp/evil\"" -> "/tmp/evil"
      [] v = "attachment; filename=\"../evil\"" -> "../evil"

\* filename_from_content_disposition: params["filename"], or KeyError
filename_from_content_disposition(v) ==
    IF HasFilenameParam(v) THEN FilenameParam(v) ELSE "KeyError"

ContentTypes ==
    {NoHeader, "text/plain; charset=utf-8", "application/x-unknown"}

\* content_type.split(";")[0]
SplitSemicolon(v) == IF v = "text/plain; charset=utf-8" THEN "text/plain" ELSE v

\* mimetypes.guess_extension
guess_extension(t) == IF t = "text/plain" THEN ".txt" ELSE NoName

ContentLengths == {NoHeader, "65534", "abc"}

\* parsed_url.path.split("/")[-1] of the URLs the model draws
UrlSegments == {"", "data.csv"}


NoHeaders == [cd |-> NoHeader, ct |-> NoHeader, cl |-> NoHeader]
Responses == [cd : Dispositions, ct : ContentTypes, cl : ContentLengths]

----------------------------------------------------------------------------
(* Initial state: the process has been started, either through main() or   *)
(* by a caller of download()                                               *)

Init ==
    /\ pcMain \in {"main", "download"}
    /\ \E inst \in Installations :
         /\ dest_dir \in {inst.dest}
                \cup (IF pcMain = "download" /\ inst.dest = "cwd" THEN {"none"} ELSE {})
         /\ preexisting = inst.files
    /\ done_event = FALSE
    /\ success_at_cancel = {}
    /\ mainExc = "None"
    /\ disk = <<>>
    /\ submitted = 0
    /\ queue = <<>>
    /\ future_to_url = {}
    /\ collected = {}
    /\ pc = [i \in Tasks |-> "unsubmitted"]
    /\ default_filename = [i \in Tasks |-> NoName]
    /\ filename = [i \in Tasks |-> NoName]
    /\ output_file_path = [i \in Tasks |-> NoPath]
    /\ nread = [i \in Tasks |-> 0]
    /\ outcome = [i \in Tasks |-> "None"]
    /\ sink = [i \in Tasks |-> [state |-> "none", completed |-> 0, removes |-> 0]]
    /\ log = {}
    /\ requested = {}
    /\ headers = [i \in Tasks |-> NoHeaders]

----------------------------------------------------------------------------
(* The main thread *)

mainVars == <<pcMain, dest_dir, mainExc, preexisting, submitted, future_to_url, collected>>
taskVars == <<pc, filename, output_file_path, nread, outcome, headers>>

\* main(): parser.parse_args() runs directory_path on --dest
ParseArgs ==
    /\ pcMain = "main"
    /\ IF directory_path(dest_dir) = "ok"
         THEN /\ pcMain' = "download"
              /\ mainExc' = mainExc
         ELSE /\ pcMain' = "raised"
              /\ mainExc' = directory_path(dest_dir)
    /\ UNCHANGED <<dest_dir, preexisting, done_event, success_at_cancel, disk, submitted, queue, future_to_url,
                   collected, default_filename, sink, log, requested, taskVars>>

\* download(), up to the pool's creation
EnterDownload ==
    /\ pcMain = "download"
    /\ dest_dir' = IF dest_dir = "none" THEN "cwd" ELSE dest_dir
    /\ pcMain' = "submit"
    /\ UNCHANGED <<preexisting, done_event, success_at_cancel, mainExc, disk, submitted, queue, future_to_url,
                   collected, default_filename, sink, log, requested, taskVars>>

\* one round of the submit loop
SubmitUrl(seg) ==
    /\ pcMain = "submit"
    /\ submitted < MaxUrls
    /\ LET i == submitted + 1 IN
         /\ submitted' = i
         /\ default_filename' = [default_filename EXCEPT ![i] = seg]
         /\ sink' = [sink EXCEPT ![i].state = "added"]
         /\ queue' = Append(queue, i)
         /\ future_to_url' = future_to_url \cup {i}
         /\ pc' = [pc EXCEPT ![i] = "queued"]
    /\ UNCHANGED <<pcMain, dest_dir, preexisting, done_event, success_at_cancel, mainExc, disk, collected,
                   filename, output_file_path, nread, outcome, log, requested,
                   headers>>

BeginCollect ==
    /\ pcMain = "submit"
    /\ submitted = MaxUrls
    /\ pcMain' = "collect"
    /\ UNCHANGED <<dest_dir, preexisting, done_event, success_at_cancel, mainExc, disk, submitted, queue,
                   future_to_url, collected, default_filename, sink, log,
                   requested, taskVars>>

\* the except clause of download(): what future.result() raising exc leads to
Handled(exc) == exc = "ConnectionError"

Exceptions ==
    {"ConnectionError", "RequestException", "KeyError", "ValueError",
     "AttributeError", "OSError"}

\* one round of the as_completed loop
Collect(i) ==
    /\ pcMain = "collect"
    /\ i \in future_to_url \ collected
    /\ outcome[i] # "None"
    /\ collected' = collected \cup {i}
    /\ IF outcome[i] \in Exceptions /\ Handled(outcome[i])
         THEN /\ log' = log \cup {<<"Failed to download", i>>}
              /\ UNCHANGED <<pcMain, mainExc>>
         ELSE IF outcome[i] \in Exceptions
         THEN /\ pcMain' = "unwind"
              /\ mainExc' = outcome[i]
              /\ log' = log
         ELSE UNCHANGED <<pcMain, mainExc, log>>
    /\ UNCHANGED <<dest_dir, preexisting, done_event, success_at_cancel, disk, submitted, queue, future_to_url,
                   default_filename, sink, requested, taskVars>>

\* the as_completed loop ends; the pool, idle, shuts down
ReturnNormally ==
    /\ pcMain = "collect"
    /\ collected = future_to_url
    /\ pcMain' = "returned"
    /\ UNCHANGED <<dest_dir, preexisting, done_event, success_at_cancel, mainExc, disk, submitted, queue,
                   future_to_url, collected, default_filename, sink, log,
                   requested, taskVars>>

\* an exception leaves the loop: the pool's __exit__ waits for every task
Unwind ==
    /\ pcMain = "unwind"
    /\ \A i \in Tasks : outcome[i] # "None"
    /\ pcMain' = "raised"
    /\ UNCHANGED <<dest_dir, preexisting, done_event, success_at_cancel, mainExc, disk, submitted, queue,
                   future_to_url, collected, default_filename, sink, log,
                   requested, taskVars>>

\* a handler that flips the event
handle_sigint_toggle ==
    /\ pcMain \notin {"returned", "raised"}
    /\ done_event' = ~done_event
    /\ success_at_cancel' = success_at_cancel
    /\ UNCHANGED <<mainVars, disk, queue, default_filename, sink, log,
                   requested, taskVars>>

\* handle_sigint, while the process lives
handle_sigint ==
    /\ pcMain \notin {"returned", "raised"}
    /\ done_event' = TRUE
    /\ success_at_cancel' = IF done_event THEN success_at_cancel
                            ELSE {i \in Tasks : outcome[i] = "Success"}
    /\ UNCHANGED <<mainVars, disk, queue, default_filename, sink, log,
                   requested, taskVars>>

----------------------------------------------------------------------------
(* The pool and copy_url *)

Running == {i \in Tasks : pc[i] \notin {"unsubmitted", "queued", "done"}}

\* a pool that starts a thread for every item
WorkerIdle_unbounded == TRUE

\* ThreadPoolExecutor(max_workers=1): a worker is free to take the next item
WorkerIdle == Cardinality(Running) < max_workers

\* a pool that hands its worker any queued item
StartTask_any(i) ==
    /\ \E k \in 1..Len(queue) : queue[k] = i
    /\ WorkerIdle
    /\ queue' = SelectSeq(queue, LAMBDA j : j # i)
    /\ pc' = [pc EXCEPT ![i] = "get"]
    /\ UNCHANGED <<mainVars, done_event, success_at_cancel, disk,
                   default_filename, filename, output_file_path, nread,
                   outcome, sink, log, requested, headers>>

\* the queue's head goes to the free worker
StartTask(i) ==
    /\ queue # <<>>
    /\ i = Head(queue)
    /\ WorkerIdle
    /\ queue' = Tail(queue)
    /\ pc' = [pc EXCEPT ![i] = "get"]
    /\ UNCHANGED <<mainVars, done_event, success_at_cancel, disk, default_filename, filename,
                   output_file_path, nread, outcome, sink, log, requested, headers>>

\* copy_url is left: its locals are gone, the future holds how it ended
Leave(i, how) ==
    /\ outcome' = [outcome EXCEPT ![i] = how]
    /\ pc' = [pc EXCEPT ![i] = "done"]
    /\ headers' = [headers EXCEPT ![i] = NoHeaders]
    /\ default_filename' = [default_filename EXCEPT ![i] = NoName]
    /\ filename' = [filename EXCEPT ![i] = NoName]
    /\ output_file_path' = [output_file_path EXCEPT ![i] = NoPath]
    /\ nread' = [nread EXCEPT ![i] = 0]

\* a remove_task that leaves the sink as it is
remove_task_noop(i) == sink' = sink

\* progress.remove_task: the sink forgets the task
remove_task(i) ==
    sink' = [sink EXCEPT ![i] = [state |-> "removed", completed |-> 0,
                                 removes |-> @.removes + 1]]

\* lines 123-129: requests.get, and its except clause
Get(i) ==
    /\ pc[i] = "get"
    /\ requested' = requested \cup {i}
    /\ \/ \E r \in Responses :
            /\ headers' = [headers EXCEPT ![i] = r]
            /\ pc' = [pc EXCEPT ![i] = "resolve"]
            /\ UNCHANGED <<outcome, sink, default_filename, filename,
                           output_file_path, nread>>
       \/ /\ remove_task(i)
          /\ Leave(i, "ConnectionError")
       \/ /\ Leave(i, "RequestException")
          /\ UNCHANGED sink
    /\ UNCHANGED <<mainVars, done_event, success_at_cancel, disk, queue, log>>

\* lines 141-148: a name from the content type
NamesFromContentType(ct) ==
    IF guess_extension(SplitSemicolon(ct)) # NoName
      THEN find_next_filename("index" \o guess_extension(SplitSemicolon(ct)))
      ELSE {"index.bin." \o w : w \in randomword(12)}

\* lines 131-148: what resolution ends in, an exception or a filename
Resolutions(h, default) ==
    IF h.cd # NoHeader /\ filename_from_content_disposition(h.cd) = "KeyError"
      THEN {[exc |-> "KeyError", name |-> NoName]}
    ELSE IF h.cl \notin {NoHeader, "65534"}
      THEN {[exc |-> "ValueError", name |-> NoName]}
    ELSE LET first == IF h.cd # NoHeader
                        THEN filename_from_content_disposition(h.cd)
                        ELSE default
         IN IF first # "" THEN {[exc |-> "None", name |-> first]}
            ELSE IF h.ct = NoHeader
              THEN {[exc |-> "AttributeError", name |-> NoName]}
            ELSE {[exc |-> "None", name |-> n] : n \in NamesFromContentType(h.ct)}

\* lines 131-150
Resolve(i) ==
    /\ pc[i] = "resolve"
    /\ \E r \in Resolutions(headers[i], default_filename[i]) :
         IF r.exc # "None"
           THEN Leave(i, r.exc)
           ELSE /\ filename' = [filename EXCEPT ![i] = r.name]
                /\ output_file_path' =
                     [output_file_path EXCEPT ![i] = joinpath(dest_dir, r.name)]
                /\ pc' = [pc EXCEPT ![i] = "open"]
                /\ headers' = [headers EXCEPT ![i] = NoHeaders]
                /\ UNCHANGED <<outcome, default_filename, nread>>
    /\ UNCHANGED <<mainVars, done_event, success_at_cancel, disk, queue, sink, log, requested>>

\* open(path, "wb"): the file is created, or truncated when it exists
Truncated(p) == [q \in DOMAIN disk \cup {p} |-> IF q = p THEN <<>> ELSE disk[q]]

\* lines 152-154
Open(i) ==
    /\ pc[i] = "open"
    /\ IF output_file_path[i][1] \in ExistingDirs
         THEN /\ disk' = Truncated(output_file_path[i])
              /\ sink' = [sink EXCEPT ![i].state = "started"]
              /\ pc' = [pc EXCEPT ![i] = "iter"]
              /\ UNCHANGED <<outcome, headers, default_filename, filename,
                             output_file_path, nread>>
         ELSE /\ Leave(i, "OSError")
              /\ UNCHANGED <<disk, sink>>
    /\ UNCHANGED <<mainVars, done_event, success_at_cancel, queue, log, requested>>

\* line 155: the stream yields a chunk, ends, or fails
Iter(i) ==
    /\ pc[i] = "iter"
    /\ \/ /\ nread[i] < MaxChunks
          /\ nread' = [nread EXCEPT ![i] = @ + 1]
          /\ pc' = [pc EXCEPT ![i] = "write"]
          /\ UNCHANGED <<outcome, headers, default_filename, filename,
                         output_file_path>>
       \/ /\ pc' = [pc EXCEPT ![i] = "finish"]
          /\ UNCHANGED <<nread, outcome, headers, default_filename, filename,
                         output_file_path>>
       \/ Leave(i, "ConnectionError")
       \/ Leave(i, "RequestException")
    /\ UNCHANGED <<mainVars, done_event, success_at_cancel, disk, queue, sink, log, requested>>

\* line 156
Write(i) ==
    /\ pc[i] = "write"
    /\ disk' = [disk EXCEPT ![output_file_path[i]] = Append(@, <<i, nread[i]>>)]
    /\ pc' = [pc EXCEPT ![i] = "update"]
    /\ UNCHANGED <<mainVars, done_event, success_at_cancel, queue, default_filename, filename,
                   output_file_path, nread, outcome, sink, log, requested, headers>>

\* an update that reports the chunk twice
Update_double(i) ==
    /\ pc[i] = "update"
    /\ sink' = [sink EXCEPT ![i].completed = @ + 2]
    /\ pc' = [pc EXCEPT ![i] = "check"]
    /\ UNCHANGED <<mainVars, done_event, success_at_cancel, disk, queue,
                   default_filename, filename, output_file_path, nread,
                   outcome, log, requested, headers>>

\* line 157
Update(i) ==
    /\ pc[i] = "update"
    /\ sink' = [sink EXCEPT ![i].completed = @ + 1]
    /\ pc' = [pc EXCEPT ![i] = "check"]
    /\ UNCHANGED <<mainVars, done_event, success_at_cancel, disk, queue, default_filename, filename,
                   output_file_path, nread, outcome, log, requested, headers>>

\* lines 158-159
Check(i) ==
    /\ pc[i] = "check"
    /\ IF done_event
         THEN Leave(i, "Cancelled")
         ELSE /\ pc' = [pc EXCEPT ![i] = "iter"]
              /\ UNCHANGED <<outcome, headers, default_filename, filename,
                             output_file_path, nread>>
    /\ UNCHANGED <<mainVars, done_event, success_at_cancel, disk, queue, sink, log, requested>>

\* lines 160-161
Finish(i) ==
    /\ pc[i] = "finish"
    /\ remove_task(i)
    /\ log' = log \cup {<<"Downloaded", i>>}
    /\ Leave(i, "Success")
    /\ UNCHANGED <<mainVars, done_event, success_at_cancel, disk, queue, requested>>

----------------------------------------------------------------------------

Next ==
    \/ ParseArgs
    \/ EnterDownload
    \/ \E seg \in UrlSegments : SubmitUrl(seg)
    \/ BeginCollect
    \/ \E i \in Tasks : Collect(i)
    \/ ReturnNormally
    \/ Unwind
    \/ handle_sigint
    \/ \E i \in Tasks : StartTask(i)
    \/ \E i \in Tasks : Get(i)
    \/ \E i \in Tasks : Resolve(i)
    \/ \E i \in Tasks : Open(i)
    \/ \E i \in Tasks : Iter(i)
    \/ \E i \in Tasks : Write(i)
    \/ \E i \in Tasks : Update(i)
    \/ \E i \in Tasks : Check(i)
    \/ \E i \in Tasks : Finish(i)

Spec == Init /\ [][Next]_vars

----------------------------------------------------------------------------
(* Vocabulary of the properties *)

Ended == pcMain \in {"returned", "raised"}

\* the task's request succeeded and copy_url has not been left
OpenStreams ==
    {i \in Tasks : pc[i] \in {"resolve", "open", "iter", "write", "update",
                              "check", "finish"}}

\* requests.get raised ConnectionError: the only failure that removes the task
FailedToConnect(i) == outcome[i] = "ConnectionError" /\ sink[i].removes = 1

\* the task has not written its first chunk
NotYetWritten(i) ==
    \/ pc[i] \in {"unsubmitted", "queued", "get", "resolve", "open"}
    \/ pc[i] = "iter" /\ nread[i] = 0
    \/ pc[i] = "write" /\ nread[i] = 1

\* steps of task i
Opens(i) == pc[i] = "open" /\ pc'[i] = "iter"
Writes(i) == pc[i] = "write" /\ pc'[i] = "update"
Resolves(i) == pc[i] = "resolve" /\ pc'[i] # "resolve"

ValidLength(h) == h.cl \in {NoHeader, "65534"}

\* the first of name, name.1, ..., name.999 that is no file of directory dir,
\* or every name.<random> when all of them are
FreeNamesIn(dir, name) ==
    IF ~isfile(<<dir, name>>) THEN {name}
    ELSE LET free == {k \in 1..(ProbeEnd - 1) : ~isfile(<<dir, Numbered(name, k)>>)}
         IN IF free # {}
              THEN {Numbered(name, CHOOSE k \in free : \A m \in free : k <= m)}
              ELSE {name \o "." \o w : w \in randomword(16)}

----------------------------------------------------------------------------
(* C1: when requests.get raises a connection failure for one URL, every    *)
(* other task still runs to a terminal outcome and download() returns      *)
(* normally.                                                               *)
C1_ConnectionFailureIsolated ==
    (Ended /\ \E i \in Tasks : FailedToConnect(i))
        => /\ \A j \in Tasks : outcome[j] # "None"
           /\ pcMain = "returned"

(* C2: at every moment of a run with more URLs than pool workers, at most  *)
(* max_workers tasks have an open response stream and no outcome yet.      *)
C2_OpenStreamsBounded == Cardinality(OpenStreams) <= max_workers

C2_Witness ==
    /\ MaxUrls > max_workers
    /\ \E i, j \in Tasks : i \in OpenStreams /\ pc[j] = "queued"

(* C3: once done_event is set, a task that has not written its first chunk *)
(* neither opens its destination file nor writes a byte.                   *)
C3_NoWriteStartsAfterCancel ==
    [][\A i \in Tasks :
         (done_event /\ NotYetWritten(i)) => (~Opens(i) /\ ~Writes(i))]_vars

(* C4: when done_event is set and a chunk is about to be written, the      *)
(* chunk is not written, the file stays as it is and the task ends         *)
(* Cancelled.                                                              *)
C4_CheckedBeforeWrite ==
    [][\A i \in Tasks :
         (done_event /\ pc[i] = "write")
            => /\ disk' = disk
               /\ pc'[i] # pc[i] => outcome'[i] = "Cancelled"]_vars

(* C5: a task never opens for writing a path that already exists, whatever *)
(* the source of its filename.                                             *)
C5_NeverOpensExistingPath ==
    [][\A i \in Tasks : Opens(i) => ~isfile(output_file_path[i])]_vars

(* C6: resolution takes the Content-Disposition filename when the header   *)
(* has one; otherwise the last URL path segment when it is non-empty; and  *)
(* only otherwise a name derived from the content type.                    *)
C6_ResolutionPriority ==
    [][\A i \in Tasks :
         (Resolves(i) /\ ValidLength(headers[i]))
            => LET h == headers[i]
                   d == default_filename[i]
               IN /\ HasFilenameParam(h.cd) => filename'[i] = FilenameParam(h.cd)
                  /\ (~HasFilenameParam(h.cd) /\ d # "") => filename'[i] = d]_vars

(* C7: with no disposition filename and no URL segment, and a content type *)
(* that maps to an extension, the name is the first of index.<ext>,        *)
(* index.<ext>.1 .. index.<ext>.999 that does not exist in the destination *)
(* directory, or index.<ext>.<random> when all exist; no error is raised.  *)
C7_ProbesDestinationDirectory ==
    [][\A i \in Tasks :
         (/\ Resolves(i)
          /\ ValidLength(headers[i])
          /\ headers[i].cd = NoHeader
          /\ default_filename[i] = ""
          /\ headers[i].ct = "text/plain; charset=utf-8")
            => /\ pc'[i] = "open"
               /\ filename'[i] \in FreeNamesIn(dest_dir, "index.txt")]_vars

(* C8: a Content-Disposition header without a filename parameter is        *)
(* treated as absent: the name falls through to the URL segment and the    *)
(* task does not fail because of the header.                               *)
C8_HeaderWithoutFilenameFallsThrough ==
    [][\A i \in Tasks :
         (/\ Resolves(i)
          /\ ValidLength(headers[i])
          /\ headers[i].cd # NoHeader
          /\ ~HasFilenameParam(headers[i].cd))
            => /\ outcome'[i] # "KeyError"
               /\ default_filename[i] # ""
                    => (pc'[i] = "open" /\ filename'[i] = default_filename[i])]_vars

(* C9: with no name from the header or the URL and no Content-Type header  *)
(* (or one that maps to no extension), the name is index.bin.<random> and  *)
(* the task goes on to write.                                              *)
C9_UnknownTypeFallsBack ==
    [][\A i \in Tasks :
         (/\ Resolves(i)
          /\ ValidLength(headers[i])
          /\ headers[i].cd = NoHeader
          /\ default_filename[i] = ""
          /\ headers[i].ct \in {NoHeader, "application/x-unknown"})
            => /\ pc'[i] = "open"
               /\ filename'[i] \in {"index.bin." \o w : w \in randomword(12)}]_vars

C11_OnlyDestinationFailuresAbort ==
    /\ pcMain \in {"unwind", "raised"}
         => mainExc \in {"DestinationDoesNotExist", "DestinationIsNotDirectory"}
    /\ \A i \in collected :
         outcome[i] \in Exceptions => <<"Failed to download", i>> \in log

(* C12: when the response stream raises a connection failure while chunks  *)
(* are read, copy_url removes the task from the progress sink and the task *)
(* ends with that error.                                                   *)
C12_StreamFailureRemovesTask ==
    [][\A i \in Tasks :
         (pc[i] = "iter" /\ pc'[i] = "done" /\ outcome'[i] = "ConnectionError")
            => sink'[i].state = "removed"]_vars

(* C13: once download() has been entered and the run has ended, every      *)
(* submitted task has a terminal outcome and download() has returned       *)
(* normally, also when tasks failed and when the cancellation flag was set *)
(* during the run.                                                         *)
C13_RunEndsNormally ==
    (Ended /\ submitted > 0)
        => /\ \A i \in 1..submitted :
                outcome[i] \in Exceptions \cup {"Success", "Cancelled"}
           /\ pcMain = "returned"
           /\ mainExc = "None"

\* the name ends in a suffix drawn by randomword
RandomSuffixed(name) ==
    \E base \in {"index.bin", "index.txt"}, length \in {12, 16} :
        name \in {base \o "." \o w : w \in randomword(length)}

\* what resolving may yield for task i, in the state as it is
ResolutionsOf(i) == Resolutions(headers[i], default_filename[i])

FilesWrittenBy(i) == {p \in DOMAIN disk : disk[p] # <<>> /\ disk[p][1][1] = i}

(* C15: a task in its copy loop that finds done_event set at its check     *)
(* returns Cancelled, so it writes at most one chunk after the flag is     *)
(* set; and a task that had succeeded when the flag was set keeps its      *)
(* Success outcome and its file as it wrote it.                            *)
C15_CancelStopsTransfersKeepsFinished ==
    [][\A i \in Tasks :
         /\ (done_event /\ pc[i] = "check" /\ pc'[i] # "check")
               => outcome'[i] = "Cancelled"
         /\ i \in success_at_cancel
               => /\ outcome'[i] = "Success"
                  /\ \A p \in FilesWrittenBy(i) :
                        p \in DOMAIN disk' /\ disk'[p] = disk[p]]_vars

\* task i is between open() and the end of its copy loop
InCopyLoop(i) == pc[i] \in {"iter", "write", "update", "check", "finish"}

\* the first n chunks of the stream of task i
StreamPrefix(i, n) == [k \in 1..n |-> <<i, k>>]

(* C16: while a task copies, its file holds the chunks of the stream in    *)
(* stream order, no more than were read, and the bytes reported to the     *)
(* progress sink never exceed the bytes written to the file.               *)
C16_FileIsPrefixProgressBehind ==
    \A i \in Tasks :
        InCopyLoop(i)
            => LET f == Contents(output_file_path[i])
               IN /\ f = StreamPrefix(i, Len(f))
                  /\ Len(f) <= nread[i]
                  /\ sink[i].completed <= Len(f)

C16_Witness ==
    \E i \in Tasks :
        /\ pc[i] = "check"
        /\ nread[i] >= 2
        /\ Contents(output_file_path[i]) = StreamPrefix(i, nread[i])
        /\ sink[i].completed = nread[i]

(* C17: done_event is monotonic: it starts unset, once set it stays set,    *)
(* and the only step that changes it is the SIGINT handler, which is no    *)
(* step of a task or of download(): no task writes it and nothing resets   *)
(* it.                                                                     *)
C17_DoneEventMonotonic ==
    /\ done_event = FALSE
    /\ [][/\ done_event => done_event'
          /\ done_event' # done_event
               => /\ pcMain' = pcMain
                  /\ pc' = pc
                  /\ outcome' = outcome
                  /\ disk' = disk
                  /\ sink' = sink]_vars

C17_Witness ==
    /\ done_event
    /\ \E i \in Tasks : outcome[i] = "Cancelled"
    /\ \E j \in Tasks : InCopyLoop(j)

----------------------------------------------------------------------------
(* C18: every file a task opens for writing lies in the destination        *)
(* directory given to download(), whatever filename the Content-Disposition *)
(* header supplies (absolute, or with a parent-directory segment) and      *)
(* whatever the URL path.                                                  *)
C18_OpensInsideDestination ==
    [][\A i \in Tasks : Opens(i) => output_file_path[i][1] = dest_dir]_vars

(* C19: with a pool of one worker, tasks run one at a time in submission   *)
(* order: a task has left the queue only when every task submitted before  *)
(* it has its outcome, a request is sent only then, and every URL is        *)
(* submitted before the first outcome is collected.                         *)
C19_OneAtATimeInSubmissionOrder ==
    /\ Cardinality(Running) <= 1
    /\ \A i, j \in Tasks :
         (i < j /\ (pc[j] \notin {"unsubmitted", "queued"} \/ j \in requested))
            => (pc[i] = "done" /\ outcome[i] # "None")
    /\ collected # {} => (submitted = MaxUrls /\ pcMain # "submit")

C19_Witness ==
    \E i, j \in Tasks :
        /\ i < j
        /\ i \in collected
        /\ pc[j] = "get"

(* C20: the sink's lifecycle per task: remove_task happens at most once;   *)
(* after it the sink gets no update and no start for that task; and a task *)
(* that ends in Success, or in a connection failure of requests.get, has   *)
(* been removed exactly once when it gets its outcome, which is before the *)
(* outcome is collected.                                                   *)
C20_SinkLifecycle ==
    [][\A i \in Tasks :
         /\ sink'[i].removes <= 1
         /\ sink[i].state = "removed" => sink'[i] = sink[i]
         /\ (pc[i] = "get" /\ outcome'[i] = "ConnectionError")
               => sink'[i].removes = 1
         /\ outcome'[i] = "Success" => sink'[i].removes = 1
         /\ (i \in collected' /\ i \notin collected) => outcome[i] # "None"]_vars

C20_Witness ==
    \E i, j \in Tasks :
        /\ outcome[i] = "Success" /\ sink[i].removes = 1 /\ i \in collected
        /\ outcome[j] = "ConnectionError" /\ sink[j].removes = 1 /\ j \in collected

====
